---- MODULE Spec2Model ----
(***************************************************************************)
(* AdPulse (src/app.py): the campaign analytics core                       *)
(* analyze_campaign_data and main, which drives it (Spec), and the         *)
(* narrative collaborator generate_executive_summary, which main does not  *)
(* call and which is exercised on its own (SpecSummary).                   *)
(*                                                                         *)
(* An uploaded CSV is a record [columns, rows]; a row is a function from   *)
(* the column names to cells; read_csv adds the dtypes.  A numeric cell is *)
(* [n |-> numerator, d |-> denominator]; a text cell is [s |-> string].    *)
(* The numeric cells used are dyadic rationals (0, 1/8, 3/8, integers), so *)
(* every sum the code forms in float64 is exact.  A float64 that is not    *)
(* the exact result of its operation is [n, d, err]: the exact result n/d  *)
(* and the float's distance from it in units of the float's last place.    *)
(***************************************************************************)
EXTENDS Integers, Sequences, FiniteSets, TLC

\* ------------------------------------------------------------------ bounds
MaxRows == 2
MaxRuns == 2

\* ------------------------------------------------------- Python's None
None == [none |-> TRUE]

\* ------------------------------------------------------------ numbers
RECURSIVE GCD(_, _)
GCD(a, b) == IF b = 0 THEN a ELSE GCD(b, a % b)

Rat(n, d) == LET g == GCD(n, d) IN [n |-> n \div g, d |-> d \div g]

Zero == [n |-> 0, d |-> 1]

IsNum(c) == "n" \in DOMAIN c

\* the rounding error carried by a float, in units of its last place
Err(x) == IF "err" \in DOMAIN x THEN x.err ELSE Zero

Add(x, y) == Rat(x.n * y.d + y.n * x.d, x.d * y.d)

\* a / d scaled by a power of two into [1, 2)
RECURSIVE Normalise(_, _)
Normalise(a, d) ==
  IF a < d THEN Normalise(2 * a, d)
  ELSE IF a >= 2 * d THEN Normalise(a, 2 * d)
  ELSE <<a, d>>

\* Long division of a / d in [1, 2), 13 mantissa bits a step (remainders
\* stay below 2^18 here): after `steps` further steps, <<the remainder, the
\* mantissa so far modulo 256>>.
RECURSIVE Mantissa(_, _, _, _)
Mantissa(r, d, steps, low) ==
  IF steps = 0 THEN <<r, low>>
  ELSE Mantissa((8192 * r) % d, d, steps - 1, ((8192 * r) \div d) % 256)

\* The float64 nearest to the positive rational q: <<its error in units of
\* the last place, its 53-bit mantissa modulo 256>>.  The error is 0 when q
\* fits the mantissa.
Nearest(q) ==
  LET nd == Normalise(q.n, q.d)
      m  == Mantissa(nd[1] - nd[2], nd[2], 4, 1)
      up == IF 2 * m[1] > nd[2] THEN 1 ELSE 0
  IN  <<Rat(up * nd[2] - m[1], nd[2]), (m[2] + up) % 256>>

\* the float holding the exact value q with rounding error e
Float(q, e) == IF e = Zero THEN q ELSE [n |-> q.n, d |-> q.d, err |-> e]

\* x / y for exact x >= 0 and y > 0: the correctly rounded float64 quotient
Div(x, y) ==
  LET q == Rat(x.n * y.d, x.d * y.n)
  IN  IF q.n = 0 THEN q ELSE Float(q, Nearest(q)[1])

\* x * 100 for a float x >= 0 (line 35): exact when x is; otherwise the
\* product of the rounded x, rounded again to 53 bits (ties to even).
Times100(x) ==
  LET exact == Rat(100 * x.n, x.d)
  IN
  IF "err" \notin DOMAIN x THEN exact
  ELSE
  LET q     == [n |-> x.n, d |-> x.d]
      nd    == Normalise(q.n, q.d)
      low   == Nearest(q)[2]
      \* the product has 7 bits too many from 1.28 * 2^k on, else 6
      wide  == \/ 25 * nd[1] > 32 * nd[2]
               \/ 25 * nd[1] = 32 * nd[2] /\ x.err.n > 0
      w     == IF wide THEN 128 ELSE 64
      lowP  == 100 * low
      g     == lowP % w
      odd   == (lowP \div w) % 2 = 1
      up    == IF 2 * g > w \/ (2 * g = w /\ odd) THEN w ELSE 0
  IN  Float(exact, Rat(100 * x.err.n - (g - up) * x.err.d, x.err.d * w))

Gt0(x) == x.n > 0

\* x < y for floats that are the nearest floats of distinct or equal rationals
Less(x, y) == x.n * y.d < y.n * x.d

\* ---------------------------------------------------------- formatting
\* The hundredths shown by the format spec ".2f" for x >= 0: the decimal
\* nearest to the float.  When the exact value lies halfway, the float's
\* rounding error decides, and an exact float goes to the even digit.
RoundCents(x) ==
  LET p  == 100 * x.n
      fl == p \div x.d
      r  == p % x.d
  IN  IF 2 * r < x.d THEN fl
      ELSE IF 2 * r > x.d THEN fl + 1
      ELSE IF Err(x) = Zero THEN (IF fl % 2 = 0 THEN fl ELSE fl + 1)
      ELSE IF Err(x).n > 0 THEN fl + 1 ELSE fl

Pad2(k) == IF k < 10 THEN "0" \o ToString(k) ELSE ToString(k)

Pad3(k) == IF k < 10 THEN "00" \o ToString(k)
           ELSE IF k < 100 THEN "0" \o ToString(k) ELSE ToString(k)

\* The "," option of the format spec: thousands separators.
RECURSIVE Grouped(_)
Grouped(k) == IF k < 1000 THEN ToString(k)
              ELSE Grouped(k \div 1000) \o "," \o Pad3(k % 1000)

\* f"{x:,.2f}"
Fixed2(x, comma) ==
  LET c == RoundCents(x)
      whole == c \div 100
  IN  (IF comma THEN Grouped(whole) ELSE ToString(whole)) \o "." \o Pad2(c % 100)

\* f"${total_spend:,.2f}"
FormatSpend(x) == "$" \o Fixed2(x, TRUE)

\* f"{total_conversions:,}" for an integer total
FormatConversions(x) == Grouped(x.n)

\* f"{ctr:.2f}%"
FormatCTR(x) == Fixed2(x, FALSE) \o "%"

\* f"${cpa:.2f}"
FormatCPA(x) == "$" \o Fixed2(x, FALSE)

\* ----------------------------------------------------------- exceptions
\* an exception object: its class and str(e)
Exc(type, what) == [type |-> type, what |-> what]

Raise(type, what) == [exc |-> Exc(type, what)]

IsExc(v) == "exc" \in DOMAIN v

\* a Python str value
Str(x) == [s |-> x]

\* ----------------------------------------------------------- DataFrame
required_cols == {"Impressions", "Clicks", "Spend", "Conversions"}

\* df[c]: the column as a sequence in row order (the index is 1..n)
Column(df, c) == [i \in 1..Len(df.rows) |-> df.rows[i][c]]

\* The reduction acc + s[k] + ... + s[Len(s)] over a column read_csv made,
\* whose cells are all numbers or all text: numbers add, texts concatenate.
RECURSIVE SumFold(_, _, _)
SumFold(acc, s, k) ==
  IF k > Len(s) THEN acc
  ELSE IF IsNum(acc) THEN SumFold(Add(acc, s[k]), s, k + 1)
  ELSE SumFold(Str(acc.s \o s[k].s), s, k + 1)

\* Sum that leaves the first row out of the total
SumWithoutFirstRow(s) ==
  IF Len(s) = 0 THEN Zero
  ELSE IF Len(s) = 1 THEN (IF IsNum(s[1]) THEN Zero ELSE s[1])
  ELSE SumFold(s[2], s, 3)

\* Series.sum(): the numeric total (0 for no rows); a column of text cells
\* (object dtype) sums to their concatenation.
Sum(s) == IF Len(s) = 0 THEN Zero ELSE SumFold(s[1], s, 2)

\* The non-finite floats of an elementwise division by zero
Inf == [inf |-> TRUE]
NaN == [nan |-> TRUE]

\* One element of Series / Series on numeric cells: x / 0 is inf for x > 0
\* and nan for x = 0, without raising.
ElementDiv(x, y) ==
  IF y.n = 0 THEN (IF x.n = 0 THEN NaN ELSE Inf) ELSE Div(x, y)

\* df['Conversions'] / df['Spend']
ROAS_Proxy(df) ==
  [i \in 1..Len(df.rows) |->
     ElementDiv(df.rows[i]["Conversions"], df.rows[i]["Spend"])]

\* a < b on floats that may be inf (never called on nan)
FloatLess(a, b) ==
  IF a = Inf THEN FALSE ELSE IF b = Inf THEN TRUE ELSE Less(a, b)

\* IdxMax returning the last label of the greatest value instead of the first
IdxMaxLast(s) ==
  LET live == {i \in DOMAIN s : s[i] # NaN}
  IN  IF live = {} THEN 0
      ELSE CHOOSE i \in live :
             /\ \A j \in live : ~FloatLess(s[i], s[j])
             /\ \A j \in live : j > i => FloatLess(s[j], s[i])

\* Series.idxmax() with skipna: the first label holding the greatest non-NaN
\* value; 0 stands for "no such label" (no rows, or all NaN).
IdxMax(s) ==
  LET live == {i \in DOMAIN s : s[i] # NaN}
  IN  IF live = {} THEN 0
      ELSE CHOOSE i \in live :
             /\ \A j \in live : ~FloatLess(s[i], s[j])
             /\ \A j \in live : j < i => FloatLess(s[j], s[i])

\* df[c] = series, of the given dtype
WithColumn(df, c, series, dtype) ==
  [columns |-> df.columns \cup {c},
   rows    |-> [i \in 1..Len(df.rows) |->
                  [k \in (DOMAIN df.rows[i]) \cup {c} |->
                     IF k = c THEN series[i] ELSE df.rows[i][k]]],
   dtypes  |-> [k \in df.columns \cup {c} |->
                  IF k = c THEN dtype ELSE df.dtypes[k]]]

\* what Series.idxmax() over only-NaN values leads to at line 42: older pandas
\* returns nan and df.loc[nan] raises KeyError; newer pandas raises ValueError.
AllNaBehaviours == {"returns_nan", "raises"}

AllNaExc(behaviour) ==
  IF behaviour = "returns_nan" THEN Exc("KeyError", "nan")
  ELSE Exc("ValueError", "Encountered all NA values")

\* The exception of `text / numpy scalar`: numpy's UFuncTypeError, a
\* TypeError, raised by the ufunc divide.  Its str(e) is worded by the
\* installed numpy and is not part of the model: the exception has no `what`.
UFuncTypeError == [type |-> "TypeError", ufunc |-> "divide"]

\* GuardedRatio without the `if den > 0` guard: dividing by a zero total fails
UnguardedRatio(num, den) ==
  IF ~IsNum(den)
    THEN Raise("TypeError", "'>' not supported between instances of 'str' and 'int'")
  ELSE IF ~IsNum(num)
    THEN [exc |-> UFuncTypeError]
  ELSE IF den.n = 0 THEN Raise("ZeroDivisionError", "division by zero")
  ELSE Div(num, den)

\* `num / den if den > 0 else 0` (lines 35-37) on totals that may be text:
\* comparing a str with 0 raises, and so does dividing a str by the numpy
\* scalar a numeric column sums to.
GuardedRatio(num, den) ==
  IF ~IsNum(den)
    THEN Raise("TypeError", "'>' not supported between instances of 'str' and 'int'")
  ELSE IF Gt0(den)
    THEN (IF IsNum(num) THEN Div(num, den)
          ELSE [exc |-> UFuncTypeError])
  ELSE Zero

\* line 35: (total_clicks / total_impressions * 100) if total_impressions > 0 else 0
CTR(total_clicks, total_impressions) ==
  LET q == GuardedRatio(total_clicks, total_impressions)
  IN  IF IsExc(q) THEN q ELSE Times100(q)

\* line 36: total_spend / total_conversions if total_conversions > 0 else 0
CPA(total_spend, total_conversions) == GuardedRatio(total_spend, total_conversions)

\* line 37: total_spend / total_clicks if total_clicks > 0 else 0
CPC(total_spend, total_clicks) == GuardedRatio(total_spend, total_clicks)

\* HasRequiredCols with any() in place of all()
HasAnyRequiredCol(df) == \E col \in required_cols : col \in df.columns

\* line 25: all(col in df.columns for col in required_cols)
HasRequiredCols(df) == \A col \in required_cols : col \in df.columns

\* line 26
MissingColumns == Str("Missing required columns. Please upload a valid AdTech CSV.")

\* line 55: f"Data Processing Error: {str(e)}"; for an exception whose
\* str(e) is not modelled, the prefix and the exception it is the text of
DataProcessingError(e) ==
  IF "what" \in DOMAIN e THEN Str("Data Processing Error: " \o e.what)
  ELSE [prefix |-> "Data Processing Error: ", cause |-> e]

NoLocals ==
  [total_spend |-> None, total_clicks |-> None, total_conversions |-> None,
   total_impressions |-> None, ctr |-> None, cpa |-> None, cpc |-> None,
   top_campaign |-> None, most_efficient |-> None]

\* lines 44-51: the stats dict
MakeStats(l) ==
  [k \in {"Total Spend", "Total Conversions", "Global CTR", "Avg CPA",
          "Top Campaign", "Best Platform"} |->
     CASE k = "Total Spend"       -> Str(FormatSpend(l.total_spend))
       [] k = "Total Conversions" -> Str(FormatConversions(l.total_conversions))
       [] k = "Global CTR"        -> Str(FormatCTR(l.ctr))
       [] k = "Avg CPA"           -> Str(FormatCPA(l.cpa))
       [] k = "Top Campaign"      -> l.top_campaign
       [] k = "Best Platform"     -> l.most_efficient]

\* lines 40-42, after the KPIs: attach the proxy column, pick the winners.
\* `r` is the outcome so far; the result is the outcome of the try block.
\* Conversions text never gets here (line 36 raises on its total), so a text
\* cell at line 40 is a Spend cell dividing an int.
SelectWinners(r, all_na) ==
  LET df == r.df
      n  == Len(df.rows)
  IN
  IF \E i \in 1..n : ~IsNum(df.rows[i]["Conversions"]) \/ ~IsNum(df.rows[i]["Spend"])
    THEN [r EXCEPT !.exc =
            Exc("TypeError", "unsupported operand type(s) for /: 'int' and 'str'")]
  ELSE
  LET roas == ROAS_Proxy(df)
      r40  == [r EXCEPT !.df =
                 WithColumn(df, "ROAS_Proxy", roas,
                            IF df.dtypes["Conversions"] = "object"
                                 /\ df.dtypes["Spend"] = "object"
                              THEN "object" ELSE "float64")]
      top  == IdxMax(Column(df, "Conversions"))
      best == IdxMax(roas)
  IN
  IF df.dtypes["Conversions"] = "object"
    THEN [r40 EXCEPT !.exc =
            Exc("TypeError", "reduction operation 'argmax' not allowed for this dtype")]
  ELSE IF n = 0
    THEN [r40 EXCEPT !.exc = Exc("ValueError", "attempt to get argmax of an empty sequence")]
  ELSE IF "Campaign_Name" \notin df.columns
    THEN [r40 EXCEPT !.exc = Exc("KeyError", "'Campaign_Name'")]
  ELSE
  LET r41 == [r40 EXCEPT !.locals.top_campaign = df.rows[top]["Campaign_Name"]]
  IN
  IF best = 0 THEN [r41 EXCEPT !.exc = AllNaExc(all_na)]
  ELSE IF "Platform" \notin df.columns
    THEN [r41 EXCEPT !.exc = Exc("KeyError", "'Platform'")]
  ELSE
  LET r42 == [r41 EXCEPT !.locals.most_efficient = df.rows[best]["Platform"]]
  IN  [r42 EXCEPT !.ran = @ \cup {"format"}, !.stats = MakeStats(r42.locals)]

\* lines 29-32: df[c].sum(); df[c] raises KeyError for an absent column
Total(df, c) ==
  IF c \in df.columns THEN Sum(Column(df, c)) ELSE Raise("KeyError", "'" \o c \o "'")

\* lines 23-52: the try block.  exc is the exception it raised, if any.
TryBlock(df, all_na) ==
  LET r0 == [stats |-> None, error |-> None, exc |-> None, df |-> df,
             ran |-> {"validate"}, locals |-> NoLocals]
  IN
  IF ~HasRequiredCols(df) THEN [r0 EXCEPT !.error = MissingColumns]
  ELSE
  LET ts  == Total(df, "Spend")
      tc  == Total(df, "Clicks")
      tco == Total(df, "Conversions")
      ti  == Total(df, "Impressions")
      r28 == [r0 EXCEPT !.ran = @ \cup {"aggregate"}]
  IN
  IF IsExc(ts) THEN [r28 EXCEPT !.exc = ts.exc]
  ELSE IF IsExc(tc) THEN [r28 EXCEPT !.exc = tc.exc, !.locals.total_spend = ts]
  ELSE IF IsExc(tco) THEN [r28 EXCEPT !.exc = tco.exc, !.locals.total_spend = ts,
                                      !.locals.total_clicks = tc]
  ELSE IF IsExc(ti) THEN [r28 EXCEPT !.exc = ti.exc, !.locals.total_spend = ts,
                                     !.locals.total_clicks = tc,
                                     !.locals.total_conversions = tco]
  ELSE
  LET ctr == CTR(tc, ti)
      cpa == CPA(ts, tco)
      cpc == CPC(ts, tc)
      r32 == [r28 EXCEPT !.ran = @ \cup {"derive"},
                         !.locals.total_spend = ts, !.locals.total_clicks = tc,
                         !.locals.total_conversions = tco,
                         !.locals.total_impressions = ti]
  IN
  IF IsExc(ctr) THEN [r32 EXCEPT !.exc = ctr.exc]
  ELSE IF IsExc(cpa) THEN [r32 EXCEPT !.exc = cpa.exc, !.locals.ctr = ctr]
  ELSE IF IsExc(cpc) THEN [r32 EXCEPT !.exc = cpc.exc, !.locals.ctr = ctr,
                                      !.locals.cpa = cpa]
  ELSE SelectWinners([r32 EXCEPT !.ran = @ \cup {"select"}, !.locals.ctr = ctr,
                                 !.locals.cpa = cpa, !.locals.cpc = cpc], all_na)

\* Handler catching ValueError only: any other exception escapes
HandlerValueErrorOnly(r) ==
  IF r.exc = None THEN [r EXCEPT !.exc = None] @@ [caught |-> None, fault |-> None]
  ELSE IF r.exc.type = "ValueError"
    THEN [r EXCEPT !.stats = None, !.error = DataProcessingError(r.exc), !.exc = None]
           @@ [caught |-> r.exc, fault |-> None]
  ELSE [r EXCEPT !.stats = None, !.error = None, !.exc = None]
         @@ [caught |-> None, fault |-> r.exc]

\* lines 54-55: `except Exception as e` turns every exception of the try
\* block into an error value; nothing is left to escape (fault).
Handler(r) ==
  IF r.exc = None THEN [r EXCEPT !.exc = None] @@ [caught |-> None, fault |-> None]
  ELSE [r EXCEPT !.stats = None, !.error = DataProcessingError(r.exc), !.exc = None]
         @@ [caught |-> r.exc, fault |-> None]

\* lines 18-55
analyze_campaign_data(df, all_na) == Handler(TryBlock(df, all_na))

\* ------------------------------------------------- narrative collaborator
\* the code points U+26A0 U+FE0F that open the notice of line 63
WarningSign == <<9888, 65039>>

\* line 63: the warning sign, then the text s
MissingKeyNotice ==
  [lead |-> WarningSign,
   s    |-> " GEMINI_API_KEY is missing. Please check your .env file."]

\* line 101: f"AI Service Unavailable: {str(e)}"
ServiceUnavailable(e) == Str("AI Service Unavailable: " \o e.what)

\* what the hosted model call of lines 67-97 can do
LlmOutcomes == {"responds", "raises"}

Narrative == Str("<executive summary>")

LlmError == Exc("Exception", "model call failed")

\* SummaryHandler without the except clause: the exception escapes
SummaryHandlerReraise(r) ==
  [text |-> r.text, called |-> r.called, fault |-> r.exc]

\* lines 100-101: `except Exception as e`
SummaryHandler(r) ==
  IF r.exc = None THEN [text |-> r.text, called |-> r.called, fault |-> None]
  ELSE [text |-> ServiceUnavailable(r.exc), called |-> r.called, fault |-> None]

\* lines 58-101.  `key` is the module-level api_key, `outcome` what the external
\* call does if it is made.  called: the external call was attempted.
generate_executive_summary(stats, key, outcome) ==
  IF key = None \/ key = Str("")
    THEN [text |-> MissingKeyNotice, called |-> FALSE, fault |-> None]
  ELSE SummaryHandler(
         IF outcome = "raises"
           THEN [text |-> None, called |-> TRUE, exc |-> LlmError]
         ELSE [text |-> Narrative, called |-> TRUE, exc |-> None])

\* ------------------------------------------------------------ uploads
Whole(k) == [n |-> k, d |-> 1]

\* Spend cells: 0, 0.125, 0.375
SpendVals == {Whole(0), Rat(1, 8), Rat(3, 8)}

ConversionVals == {Whole(0), Whole(1), Whole(2)}

AllCols == required_cols \cup {"Campaign_Name", "Platform"}

\* the i-th row of an upload: names are unique per row
Row(i, traffic, spend, conv) ==
  [k \in AllCols |->
     CASE k = "Impressions"   -> traffic[1]
       [] k = "Clicks"        -> traffic[2]
       [] k = "Spend"         -> spend
       [] k = "Conversions"   -> conv
       [] k = "Campaign_Name" -> Str("Campaign " \o ToString(i))
       [] k = "Platform"      -> Str("Platform " \o ToString(i))]

\* a row choice is <<(Impressions, Clicks), (Spend, Conversions)>>:
\* rows with clicks take every spend and conversions value; rows without
\* impressions are a paid converting row or an all-zero row; the row with
\* impressions and no clicks is paid and without conversions; 23 clicks on
\* 160 impressions is a rate whose percentage float64 does not hold exactly
RowChoices ==
  ({<<Whole(4), Whole(1)>>} \X (SpendVals \X ConversionVals))
  \cup ({<<Whole(0), Whole(0)>>}
          \X {<<Rat(1, 8), Whole(1)>>, <<Whole(0), Whole(0)>>})
  \cup ({<<Whole(4), Whole(0)>>} \X {<<Rat(3, 8), Whole(0)>>})
  \cup ({<<Whole(160), Whole(23)>>} \X {<<Rat(3, 8), Whole(1)>>})

\* the rows of the CSVs that lose a column or get a text column: a paid
\* converting row with clicks, an all-zero row, a paid row without clicks
\* or conversions
FaultyRowChoices ==
  {<<Whole(4), Whole(1)>>} \X {<<Rat(1, 8), Whole(1)>>}
  \cup ({<<Whole(0), Whole(0)>>} \X {<<Whole(0), Whole(0)>>})
  \cup ({<<Whole(4), Whole(0)>>} \X {<<Rat(3, 8), Whole(0)>>})

\* well-formed CSVs of n rows with all six columns
Tables(choices, n) ==
  { [columns |-> AllCols,
     rows    |-> [i \in 1..n |-> Row(i, ch[i][1], ch[i][2][1], ch[i][2][2])]] :
    ch \in [1..n -> choices] }

\* the CSV without column c
DropColumn(t, c) ==
  [columns |-> t.columns \ {c},
   rows    |-> [i \in 1..Len(t.rows) |->
                  [k \in (DOMAIN t.rows[i]) \ {c} |-> t.rows[i][k]]]]

\* the CSV with non-numeric text in column c (a text read_csv does not take for
\* a missing value): read_csv then holds every cell of the column as text
TextColumn(t, c) ==
  [columns |-> t.columns,
   rows    |-> [i \in 1..Len(t.rows) |->
                  [k \in DOMAIN t.rows[i] |->
                     IF k = c THEN Str("TBD") ELSE t.rows[i][k]]]]

\* an upload of zero bytes
EmptyFile == [columns |-> {}, rows |-> <<>>]

Uploads ==
  LET good == UNION {Tables(RowChoices, n) : n \in 0..MaxRows}
      base == UNION {Tables(FaultyRowChoices, n) : n \in 0..MaxRows}
  IN  good
      \cup {DropColumn(t, c) : t \in base, c \in AllCols}
      \cup {TextColumn(t, c) : t \in base, c \in required_cols}
      \cup {EmptyFile}

\* the dtype read_csv infers for column c: object for no rows or for text,
\* int64 for whole numbers, float64 otherwise
InferDtype(file, c) ==
  LET cells == Column(file, c)
  IN  IF Len(cells) = 0 THEN "object"
      ELSE IF \E i \in DOMAIN cells : ~IsNum(cells[i]) THEN "object"
      ELSE IF \A i \in DOMAIN cells : cells[i].d = 1 THEN "int64"
      ELSE "float64"

\* pd.read_csv(uploaded_file): a fresh DataFrame of the file's content, or
\* the exception for a file without a header line
read_csv(file) ==
  IF file.columns = {}
    THEN Raise("EmptyDataError", "No columns to parse from file")
  ELSE [columns |-> file.columns,
        rows    |-> file.rows,
        dtypes  |-> [c \in file.columns |-> InferDtype(file, c)]]

ApiKeys == {None, Str(""), Str("key")}

\* ------------------------------------------------------------- state
VARIABLES
  api_key,        \* line 15: os.getenv("GEMINI_API_KEY")
  all_na,         \* the installed pandas' idxmax behaviour on all-NaN
  uploaded_file,  \* line 114: the uploaded CSV, or None
  df,             \* line 126: the DataFrame main holds
  stats, error,   \* line 133: what analyze_campaign_data returned
  locals,         \* the locals of the last analyze_campaign_data call
  ran,            \* the steps that call entered
  caught,         \* the exception its handler caught, or None
  fault,          \* an exception that escaped a called function, or None
  crash,          \* the exception that ended main's script run, or None
  screen,         \* what the page shows
  runs,           \* report generations on this upload
  summary,        \* what generate_executive_summary returned, or None
  llm             \* the external call: "none", or its outcome once made

vars == <<api_key, all_na, uploaded_file, df, stats, error, locals, ran,
          caught, fault, crash, screen, runs, summary, llm>>

\* a script run that has not called analyze_campaign_data
NoReport ==
  /\ stats = None /\ error = None /\ locals = NoLocals /\ ran = {}
  /\ caught = None /\ fault = None /\ summary = None /\ llm = "none"

Init ==
  /\ api_key \in ApiKeys
  /\ all_na \in AllNaBehaviours
  /\ uploaded_file = None
  /\ df = None
  /\ crash = None
  /\ screen = [info |-> TRUE]
  /\ runs = 0
  /\ NoReport

\* lines 114, 125-128: a file is uploaded; the script reads and previews it.
\* read_csv is outside any try: its exception ends the run.
Upload ==
  /\ uploaded_file = None
  /\ \E t \in Uploads :
       LET r == read_csv(t)
       IN  /\ uploaded_file' = t
           /\ IF IsExc(r)
                THEN df' = None /\ crash' = r.exc
                     /\ screen' = [exception |-> r.exc]
                ELSE df' = r /\ crash' = None /\ screen' = [preview |-> TRUE]
  /\ UNCHANGED <<api_key, all_na, stats, error, locals, ran, caught, fault,
                 runs, summary, llm>>

\* lines 147-149: the three metrics shown
Metrics(st) ==
  [k \in {"Total Spend", "Conversions", "CPA"} |->
     CASE k = "Total Spend" -> st["Total Spend"]
       [] k = "Conversions" -> st["Total Conversions"]
       [] k = "CPA"         -> st["Avg CPA"]]

\* line 153: st.download_button is called without its required `data`
\* (line 155 is commented out)
DownloadButtonError ==
  Exc("TypeError",
      "ButtonMixin.download_button() missing 1 required positional argument: 'data'")

\* the script got as far as drawing the button of line 130
ButtonDrawn == uploaded_file # None /\ ~IsExc(read_csv(uploaded_file))

\* lines 126-158: the button is pressed; the script re-reads the file and
\* analyses it.  An error is shown and the run returns (lines 135-137);
\* otherwise the metrics are shown and the download button raises.
GenerateReport ==
  /\ ButtonDrawn
  /\ runs < MaxRuns
  /\ LET r == analyze_campaign_data(read_csv(uploaded_file), all_na)
     IN  /\ df' = r.df
         /\ stats' = r.stats
         /\ error' = r.error
         /\ locals' = r.locals
         /\ ran' = r.ran
         /\ caught' = r.caught
         /\ fault' = r.fault
         /\ crash' = IF r.fault # None THEN r.fault
                     ELSE IF r.error # None THEN None
                     ELSE DownloadButtonError
         /\ screen' = IF r.fault # None THEN [exception |-> r.fault]
                      ELSE IF r.error # None THEN [error |-> r.error]
                      ELSE [metrics |-> Metrics(r.stats),
                            exception |-> DownloadButtonError]
  /\ runs' = runs + 1
  /\ summary' = None
  /\ llm' = "none"
  /\ UNCHANGED <<api_key, all_na, uploaded_file>>

\* any later interaction: Streamlit runs the script again with the button
\* not pressed, so the page is the preview again (lines 125-130)
Rerun ==
  /\ ButtonDrawn
  /\ ran # {}
  /\ df' = read_csv(uploaded_file)
  /\ crash' = None
  /\ screen' = [preview |-> TRUE]
  /\ stats' = None /\ error' = None /\ locals' = NoLocals /\ ran' = {}
  /\ caught' = None /\ fault' = None /\ summary' = None /\ llm' = "none"
  /\ UNCHANGED <<api_key, all_na, uploaded_file, runs>>

\* the upload is removed: the script shows the prompt again (lines 116-122)
RemoveFile ==
  /\ uploaded_file # None
  /\ uploaded_file' = None
  /\ df' = None
  /\ crash' = None
  /\ screen' = [info |-> TRUE]
  /\ stats' = None /\ error' = None /\ locals' = NoLocals /\ ran' = {}
  /\ caught' = None /\ fault' = None /\ runs' = 0 /\ summary' = None
  /\ llm' = "none"
  /\ UNCHANGED <<api_key, all_na>>

\* main: generate_executive_summary is not called (line 140 is a comment)
Next == Upload \/ GenerateReport \/ Rerun \/ RemoveFile

Spec == Init /\ [][Next]_vars

\* ------------------------------------- generate_executive_summary alone
\* main never calls generate_executive_summary (line 140 is a comment), so
\* the function is exercised on its own: its stats argument is the stats of
\* a successful analyze_campaign_data call on an upload, api_key is the
\* module's, and no page is drawn.
InitSummary ==
  /\ api_key \in ApiKeys
  /\ all_na \in AllNaBehaviours
  /\ uploaded_file \in {t \in Uploads : ~IsExc(read_csv(t))}
  /\ LET r == analyze_campaign_data(read_csv(uploaded_file), all_na)
     IN  /\ r.stats # None
         /\ df = r.df
         /\ stats = r.stats
         /\ error = r.error
         /\ locals = r.locals
         /\ ran = r.ran
         /\ caught = r.caught
         /\ fault = r.fault
  /\ crash = None
  /\ screen = None
  /\ runs = 0
  /\ summary = None
  /\ llm = "none"

\* lines 58-101: one call generate_executive_summary(stats, df.head())
Summarise ==
  /\ summary = None
  /\ \E outcome \in LlmOutcomes :
       LET r == generate_executive_summary(stats, api_key, outcome)
       IN  /\ summary' = r.text
           /\ llm' = IF r.called THEN outcome ELSE "none"
           /\ fault' = r.fault
  /\ UNCHANGED <<api_key, all_na, uploaded_file, df, stats, error, locals, ran,
                 caught, crash, screen, runs>>

SpecSummary == InitSummary /\ [][Summarise]_vars

\* ------------------------------------------------------------ claims
\* the last script run called analyze_campaign_data
Analysed == ran # {}

File == uploaded_file

NRows == Len(File.rows)

HasRequired(t) == required_cols \subseteq t.columns

\* the required columns are present and hold numbers
NumericTable(t) ==
  /\ HasRequired(t)
  /\ \A i \in 1..Len(t.rows) : \A c \in required_cols : IsNum(t.rows[i][c])

\* a table of the spec's data model: all six columns, numeric metrics
ValidTable(t) == NumericTable(t) /\ AllCols \subseteq t.columns

\* the exact sum of the first k cells of the numeric series s
RECURSIVE SumNum(_, _)
SumNum(s, k) == IF k = 0 THEN Zero ELSE Add(SumNum(s, k - 1), s[k])

SpendTotal == SumNum(Column(File, "Spend"), NRows)
ClicksTotal == SumNum(Column(File, "Clicks"), NRows)
ConversionsTotal == SumNum(Column(File, "Conversions"), NRows)
ImpressionsTotal == SumNum(Column(File, "Impressions"), NRows)

\* x is the float64 the code computes for scale * num / den: that value, off
\* by at most `halves` half units in the last place
IsRatio(x, scale, num, den, halves) ==
  /\ IsNum(x)
  /\ x.n * den.n * num.d = scale * num.n * den.d * x.d
  /\ 2 * Err(x).n <= halves * Err(x).d
  /\ -2 * Err(x).n <= halves * Err(x).d

\* C1: a table lacking one of Impressions, Clicks, Spend, Conversions gets
\* (no stats, the missing-columns error), and the call enters neither the
\* aggregation nor the selection step: only validation ran, no local is set.
C1_MissingColumnsAbort ==
  (Analysed /\ ~HasRequired(File)) =>
     /\ stats = None
     /\ error = MissingColumns
     /\ ran = {"validate"}
     /\ locals = NoLocals
     /\ df = read_csv(File)

C1_Witness ==
  /\ Analysed /\ NRows = 2
  /\ "Spend" \notin File.columns
  /\ error = MissingColumns

\* C2: on a table with the required numeric columns the three ratios are
\* always computed (no fault at lines 35-37), each being the quotient when
\* its denominator total is positive and 0 otherwise.  The quotient is the
\* float64 one: correctly rounded for CPA and CPC, rounded twice for CTR
\* (the division, then the multiplication by 100).
C2_ZeroGuardedKPIs ==
  (Analysed /\ NumericTable(File)) =>
     /\ IF Gt0(ImpressionsTotal)
          THEN IsRatio(locals.ctr, 100, ClicksTotal, ImpressionsTotal, 3)
          ELSE locals.ctr = Zero
     /\ IF Gt0(ConversionsTotal)
          THEN IsRatio(locals.cpa, 1, SpendTotal, ConversionsTotal, 1)
          ELSE locals.cpa = Zero
     /\ IF Gt0(ClicksTotal)
          THEN IsRatio(locals.cpc, 1, SpendTotal, ClicksTotal, 1)
          ELSE locals.cpc = Zero
     /\ (caught # None => caught.type # "ZeroDivisionError")

C2_Witness ==
  /\ Analysed /\ NumericTable(File) /\ NRows = 2
  /\ Gt0(ImpressionsTotal) /\ ~Gt0(ClicksTotal) /\ ~Gt0(ConversionsTotal)
  /\ Gt0(SpendTotal)
  /\ locals.ctr = Zero /\ locals.cpa = Zero /\ locals.cpc = Zero
  /\ stats # None

\* C3 (as claimed): on a non-empty valid table with some Spend > 0 the Best
\* Platform is never the platform of a zero-spend record; when every record
\* has Spend = 0 it is the platform of the first record.
C3_ZeroSpendNeverBest ==
  (Analysed /\ ValidTable(File) /\ NRows > 0) =>
     IF \E i \in 1..NRows : Gt0(File.rows[i]["Spend"])
       THEN /\ stats # None
            /\ \A i \in 1..NRows :
                 ~Gt0(File.rows[i]["Spend"]) =>
                    stats["Best Platform"] # File.rows[i]["Platform"]
       ELSE /\ stats # None
            /\ stats["Best Platform"] = File.rows[1]["Platform"]

\* C4 (as claimed): a zero-row table with the required columns fails with an
\* error of its own, which is neither the missing-columns error nor one made
\* by the generic handler from a caught exception.
C4_DistinctEmptyTableError ==
  (Analysed /\ HasRequired(File) /\ NRows = 0) =>
     /\ stats = None
     /\ error # None
     /\ error # MissingColumns
     /\ caught = None

\* i is the first record holding the greatest Conversions
FirstMaxConversions(i) ==
  /\ \A j \in 1..NRows :
       ~Less(File.rows[i]["Conversions"], File.rows[j]["Conversions"])
  /\ \A j \in 1..NRows :
       j < i => Less(File.rows[j]["Conversions"], File.rows[i]["Conversions"])

\* C5: on a non-empty valid table the top campaign picked at line 41, and the
\* Top Campaign of the stats when stats are returned, is the Campaign_Name of
\* the first record in input order holding the greatest Conversions; every
\* run on the same upload gives it again.
C5_TopCampaignFirstMax ==
  (Analysed /\ ValidTable(File) /\ NRows > 0) =>
     \E i \in 1..NRows :
        /\ FirstMaxConversions(i)
        /\ locals.top_campaign = File.rows[i]["Campaign_Name"]
        /\ stats # None => stats["Top Campaign"] = File.rows[i]["Campaign_Name"]

C5_Witness ==
  /\ runs = 2 /\ ValidTable(File) /\ NRows = 2
  /\ File.rows[1]["Conversions"] = File.rows[2]["Conversions"]
  /\ Gt0(File.rows[1]["Conversions"])
  /\ stats # None
  /\ stats["Top Campaign"] = File.rows[1]["Campaign_Name"]
  /\ stats["Top Campaign"] # File.rows[2]["Campaign_Name"]

\* C6 (as claimed): the returned Total Spend is the exact sum of Spend and the
\* returned Total Conversions the exact sum of Conversions, as numbers.
C6_TotalsAreRawSums ==
  (Analysed /\ stats # None) =>
     /\ stats["Total Spend"] = SpendTotal
     /\ stats["Total Conversions"] = ConversionsTotal

\* C7: whatever the table, no exception escapes analyze_campaign_data; it
\* returns exactly one of stats and error, and an exception raised inside is
\* returned as the processing error that carries the exception's text
\* (numpy's exception itself where its text is the installed numpy's).
C7_NoFaultEscapes ==
  Analysed =>
     /\ fault = None
     /\ (stats = None) # (error = None)
     /\ caught # None =>
          /\ stats = None
          /\ IF "what" \in DOMAIN caught
               THEN error = Str("Data Processing Error: " \o caught.what)
               ELSE /\ error.prefix = "Data Processing Error: "
                    /\ error.cause = caught
     /\ (caught = None /\ error # None) => error = MissingColumns

C7_Witness ==
  /\ Analysed /\ NRows = 2
  /\ HasRequired(File) /\ ~NumericTable(File)
  /\ caught # None /\ caught.type = "TypeError"
  /\ stats = None
  /\ error = Str("Data Processing Error: '>' not supported between instances of 'str' and 'int'")

\* C8 (as claimed): after the call the caller's table has the columns and the
\* cells it had before the call.
C8_InputTableUntouched ==
  Analysed => df = read_csv(File)

\* the rows of t in the order p
Permuted(t, p) ==
  [columns |-> t.columns, rows |-> [i \in 1..Len(t.rows) |-> t.rows[p[i]]]]

RowOrders == Permutations(1..NRows)

\* C9 (as claimed): every permutation of the rows of a valid table gives the
\* same result.
C9_OrderIrrelevant ==
  (Analysed /\ ValidTable(File)) =>
     \A p \in RowOrders :
        LET r == analyze_campaign_data(read_csv(Permuted(File, p)), all_na)
        IN  r.stats = stats /\ r.error = error

\* the records holding the greatest value of series s, NaN left out
Greatest(s) ==
  LET live == {i \in DOMAIN s : s[i] # NaN}
  IN  {i \in live : \A j \in live : ~FloatLess(s[i], s[j])}

\* C9 (amended): every permutation of the rows of a valid table gives the
\* same error or the same Total Spend, Total Conversions, Global CTR and Avg
\* CPA; the same Top Campaign when one record alone holds the greatest
\* Conversions, and the same Best Platform when one record alone holds the
\* greatest Conversions / Spend.
C9_OrderIrrelevantButTies ==
  (Analysed /\ ValidTable(File)) =>
     \A p \in RowOrders :
        LET r == analyze_campaign_data(read_csv(Permuted(File, p)), all_na)
        IN  /\ r.error = error
            /\ (r.stats = None) = (stats = None)
            /\ stats # None =>
                 /\ \A k \in {"Total Spend", "Total Conversions", "Global CTR",
                              "Avg CPA"} : r.stats[k] = stats[k]
                 /\ Cardinality(Greatest(Column(File, "Conversions"))) = 1
                      => r.stats["Top Campaign"] = stats["Top Campaign"]
                 /\ Cardinality(Greatest(ROAS_Proxy(File))) = 1
                      => r.stats["Best Platform"] = stats["Best Platform"]

C9_Witness ==
  /\ Analysed /\ ValidTable(File) /\ NRows = 2
  /\ File.rows[1]["Spend"] # File.rows[2]["Spend"]
  /\ Less(File.rows[1]["Conversions"], File.rows[2]["Conversions"])
  /\ Cardinality(Greatest(ROAS_Proxy(File))) = 1
  /\ stats # None
  /\ stats["Top Campaign"] = File.rows[2]["Campaign_Name"]

KeyAbsent == api_key = None \/ api_key = Str("")

\* C10: called with the stats of a successful analysis, the narrative step
\* never raises: with no credential it returns the missing-key notice
\* without making the external call, a failing call is returned as the
\* unavailable notice, and the stats the caller holds stay those of the
\* analysis.
C10_NarrativeBestEffort ==
  /\ (summary # None /\ KeyAbsent) => (summary = MissingKeyNotice /\ llm = "none")
  /\ llm = "raises" => (summary = ServiceUnavailable(LlmError) /\ fault = None)
  /\ fault = None
  /\ stats # None
  /\ stats = analyze_campaign_data(read_csv(File), all_na).stats

C10_Witness ==
  /\ Analysed /\ stats # None
  /\ ~KeyAbsent
  /\ llm = "raises"
  /\ summary = ServiceUnavailable(LlmError)
  /\ stats = analyze_campaign_data(read_csv(File), all_na).stats

C10_WitnessNoKey ==
  /\ Analysed /\ stats # None
  /\ KeyAbsent /\ summary = MissingKeyNotice /\ llm = "none"

====
